---- MODULE Spec2Model ----
(***************************************************************************)
(* Splitmint: the exact split engine (services/split_engine.py), the       *)
(* balance aggregator, zero-sum checker and greedy debt simplifier         *)
(* (services/debt_simplifier.py).                                          *)
(*                                                                         *)
(* Money is a Decimal with two fractional digits in the source; here it is *)
(* an integer number of cents, so 0.01 is 1 and 100.00 is 10000.           *)
(* Percentages are Decimals in percentage points; here they are integers   *)
(* in hundredths of a point, so 100.00 is 10000 and the 0.01 tolerance of  *)
(* split_percentage is 1.                                                  *)
(***************************************************************************)
EXTENDS Integers, Sequences, FiniteSets, TLC

VARIABLES
    pc,              \* position of the caller: "idle" before a call, then the callee's position
    fn,              \* the function that was called
    args,            \* its arguments
    ret,             \* what it returned or raised
    balances,        \* calculate_group_balances: the dict being built
    nExp,            \* number of expense records consumed
    nSet,            \* number of settlement records consumed
    net,             \* history: per participant, (expenses paid) - (split amounts owed)
                     \*          - (settlements paid) + (settlements received)
    seen,            \* history: participants occurring in at least one record
    wellFormed,      \* history: every earlier expense had splits summing to its amount
    unsplit,         \* history: amount of the current expense minus its split lines so far
    nSplits,         \* number of split lines of the current expense consumed
    first,           \* what the first of two calls on the same dict object returned, or NoneVal
    sd_balances,     \* the dict object passed as `balances` to simplify_debts or
                     \* verify_zero_sum, as it is now
    debtors,         \* simplify_debts: sorted list of <<user, magnitude>>
    creditors,       \* simplify_debts: sorted list of <<user, balance>>
    i,               \* simplify_debts: debtor pointer (0-based as in the source)
    j,               \* simplify_debts: creditor pointer (0-based)
    current_debt,    \* simplify_debts: remaining magnitude of the pointed-at debtor
    current_credit,  \* simplify_debts: remaining balance of the pointed-at creditor
    transactions,    \* simplify_debts: emitted <<from, to, amount>> tuples
    db_members,      \* table group_members: user ids with a committed row for the group
    db_expenses,     \* table expenses: committed rows of the group, in insertion order
    db_splits,       \* table expense_splits: committed rows, in insertion order
    db_settlements,  \* table settlements: committed rows of the group, in insertion order
    lock_holder,     \* the worker whose transaction holds the FOR UPDATE lock on the
                     \* group's row, or 0
    req              \* per server worker: the request it is handling, the handler's
                     \* position and locals, the rows pending in its session, and
                     \* the response once it is done

callVars == <<pc, fn, args, ret>>
aggVars  == <<balances, nExp, nSet, net, seen, wellFormed, unsplit, nSplits>>
sdVars   == <<sd_balances, debtors, creditors, i, j, current_debt, current_credit, transactions>>
apiVars  == <<db_members, db_expenses, db_splits, db_settlements, lock_holder, req>>
vars     == <<pc, fn, args, ret, first,
              balances, nExp, nSet, net, seen, wellFormed, unsplit, nSplits,
              sd_balances, debtors, creditors, i, j, current_debt, current_credit, transactions,
              db_members, db_expenses, db_splits, db_settlements, lock_holder, req>>

----------------------------------------------------------------------------
(* Bounds of the model *)

MaxAmount == 12
\* largest total amount handed to split_custom and split_percentage, in cents

MaxEqualAmount == 120
\* largest total amount of the dense range handed to split_equal, in cents

MaxN == 100
\* largest participant count handed to split_equal

MaxLen == 3
\* longest custom_amounts / percentages / participant_ids list

MaxCustom == 3
\* largest single custom amount, in cents

NumIds == 2
\* number of distinct participant identifiers handed to create_splits

NumUsers == 2
\* number of distinct participants in the records handed to calculate_group_balances

MaxExpenses == 2
\* longest list of expense records handed to calculate_group_balances

MaxSettlements == 1
\* longest list of settlement records handed to calculate_group_balances

MaxSplits == 2
\* most split lines of one expense record

MaxMapSize == 4
\* most participants in a balance map handed to simplify_debts

MaxBalance == 4
\* largest magnitude of a balance handed to simplify_debts, in cents

NumAccounts == 5
\* number of user accounts; account 1 created the group

NumWorkers == 2
\* number of server workers handling requests at the same time

----------------------------------------------------------------------------
(* Arithmetic helpers *)

Abs(x) == IF x < 0 THEN -x ELSE x

\* mutant: the larger of the two is taken
Min_Larger(a, b) == IF a <= b THEN b ELSE a

Min(a, b) == IF a <= b THEN a ELSE b

RECURSIVE SumSeq(_)
SumSeq(s) == IF s = <<>> THEN 0 ELSE Head(s) + SumSeq(Tail(s))

\* mutant: the quotient is quantized to whole units, Decimal('1'), instead of cents
RoundHalfEven_Units(num, den) ==
    LET q == num \div (100 * den)
        r == num % (100 * den)
    IN  100 * (IF 2 * r < 100 * den THEN q
               ELSE IF 2 * r > 100 * den THEN q + 1
               ELSE IF q % 2 = 0 THEN q ELSE q + 1)

\* (num / den).quantize(Decimal('0.01'), rounding=ROUND_HALF_EVEN), in cents:
\* the integer nearest to num/den, the even one when num/den is exactly
\* halfway.  den > 0.  \div is floor division and % is non-negative.
RoundHalfEven(num, den) ==
    LET q == num \div den
        r == num % den
    IN  IF 2 * r < den THEN q
        ELSE IF 2 * r > den THEN q + 1
        ELSE IF q % 2 = 0 THEN q ELSE q + 1

----------------------------------------------------------------------------
(* Results: a Python call returns a value or raises.  The source raises    *)
(* ValueError with a message; the kind names the message as the error      *)
(* taxonomy does.  info carries the numbers the message is formatted with. *)

Ok(v) == [ok |-> TRUE, val |-> v, err |-> "none", info |-> <<>>]

Raise(kind, info) == [ok |-> FALSE, val |-> <<>>, err |-> kind, info |-> info]

\* Optional[List[Decimal]] parameters of create_splits
NoneVal == [isNone |-> TRUE, v |-> <<>>]

Some(x) == [isNone |-> FALSE, v |-> x]

----------------------------------------------------------------------------
(* split_engine.py *)

SplitTypes == {"equal", "custom", "percentage"}

\* mutant: the rounding difference is never distributed
EqualAdjust_NoAdjust(base, n, adjustment, num_adjustments) ==
    [k \in 1..n |-> base]

\* mutant: the last participants absorb the rounding difference
EqualAdjust_Last(base, n, adjustment, num_adjustments) ==
    [k \in 1..n |-> IF k > n - num_adjustments THEN base + adjustment ELSE base]

\* lines 41-53: n copies of base, then adjustment added to
\* splits[0 .. num_adjustments-1]
EqualAdjust(base, n, adjustment, num_adjustments) ==
    [k \in 1..n |-> IF k <= num_adjustments THEN base + adjustment ELSE base]

\* mutant: the amount is not validated
split_equal_NoAmountCheck(amount, num_participants) ==
    IF num_participants <= 0
    THEN Raise("InvalidInput", <<"Number of participants must be positive">>)
    ELSE
      LET base  == RoundHalfEven(amount, num_participants)
          diff  == amount - num_participants * base
      IN  Ok(EqualAdjust(base, num_participants, IF diff > 0 THEN 1 ELSE -1, Abs(diff)))

split_equal(amount, num_participants) ==
    IF num_participants <= 0
    THEN Raise("InvalidInput", <<"Number of participants must be positive">>)
    ELSE IF amount <= 0
    THEN Raise("InvalidInput", <<"Amount must be positive">>)
    ELSE
      LET base  == RoundHalfEven(amount, num_participants)
          total == num_participants * base
          diff  == amount - total
          adjustment == IF diff > 0 THEN 1 ELSE -1
          num_adjustments == Abs(diff)          \* abs(int(diff * 100))
      IN  IF diff # 0
          THEN IF num_adjustments > num_participants
               THEN Raise("IndexError", <<>>)   \* splits[i] past the end
               ELSE Ok(EqualAdjust(base, num_participants, adjustment, num_adjustments))
          ELSE Ok([k \in 1..num_participants |-> base])

\* mutant: the sum check allows a one-cent tolerance
split_custom_Tolerant(amount, custom_amounts) ==
    LET total == SumSeq(custom_amounts)
    IN  IF Abs(total - amount) > 1
        THEN Raise("SplitMismatch", <<total, amount - total>>)
        ELSE IF \E k \in 1..Len(custom_amounts) : custom_amounts[k] < 0
        THEN Raise("NegativeAmount", <<"Custom amounts cannot be negative">>)
        ELSE Ok(custom_amounts)

split_custom(amount, custom_amounts) ==
    LET total == SumSeq(custom_amounts)
    IN  IF total # amount
        THEN Raise("SplitMismatch", <<total, amount - total>>)
        ELSE IF \E k \in 1..Len(custom_amounts) : custom_amounts[k] < 0
        THEN Raise("NegativeAmount", <<"Custom amounts cannot be negative">>)
        ELSE Ok(custom_amounts)

\* line 116: (amount * pct / 100).quantize(0.01, ROUND_HALF_EVEN); with
\* amount in cents and pct in hundredths of a point the quotient in cents is
\* amount * pct / 10000
PercentageShare(amount, pct) == RoundHalfEven(amount * pct, 10000)

\* mutant: the last position holding the maximum
MaxIndex_Last(splits) ==
    CHOOSE k \in 1..Len(splits) :
        /\ \A m \in 1..Len(splits) : splits[m] <= splits[k]
        /\ \A m \in (k + 1)..Len(splits) : splits[m] < splits[k]

\* splits.index(max(splits)): first position holding the maximum
MaxIndex(splits) ==
    CHOOSE k \in 1..Len(splits) :
        /\ \A m \in 1..Len(splits) : splits[m] <= splits[k]
        /\ \A m \in 1..(k - 1) : splits[m] < splits[k]

\* mutant: one cent of the difference goes to the largest split
AdjustLargest_OneCent(splits, diff) ==
    IF diff # 0
    THEN LET max_idx == MaxIndex(splits)
         IN  [splits EXCEPT ![max_idx] = @ + (IF diff > 0 THEN 1 ELSE -1)]
    ELSE splits

\* lines 123-126: the whole difference goes to the largest split
AdjustLargest(splits, diff) ==
    IF diff # 0
    THEN LET max_idx == MaxIndex(splits)
         IN  [splits EXCEPT ![max_idx] = @ + diff]
    ELSE splits

\* mutant: a total exactly 0.01 away from 100.00 is rejected
split_percentage_Strict(amount, percentages) ==
    LET total_percentage == SumSeq(percentages)
    IN  IF Abs(total_percentage - 10000) >= 1
        THEN Raise("PercentageMismatch", <<total_percentage>>)
        ELSE IF \E k \in 1..Len(percentages) : percentages[k] < 0
        THEN Raise("NegativeAmount", <<"Percentages cannot be negative">>)
        ELSE
          LET splits == [k \in 1..Len(percentages) |-> PercentageShare(amount, percentages[k])]
              total  == SumSeq(splits)
              diff   == amount - total
              IN  Ok(AdjustLargest(splits, diff))

\* lines 102-128; the sign check of line 113 sits in the loop that computes
\* the shares, so it runs after the total check of line 105 and raises at the
\* first negative percentage before any share is returned
split_percentage(amount, percentages) ==
    LET total_percentage == SumSeq(percentages)
    IN  IF Abs(total_percentage - 10000) > 1
        THEN Raise("PercentageMismatch", <<total_percentage>>)
        ELSE IF \E k \in 1..Len(percentages) : percentages[k] < 0
        THEN Raise("NegativeAmount", <<"Percentages cannot be negative">>)
        ELSE
          LET splits == [k \in 1..Len(percentages) |-> PercentageShare(amount, percentages[k])]
              total  == SumSeq(splits)
              diff   == amount - total
              IN  Ok(AdjustLargest(splits, diff))

\* dict[key] = value on an insertion-ordered dict, a sequence of
\* <<key, value>> with distinct keys: an existing key keeps its position and
\* takes the new value, a new key is appended
DictSet(d, key, value) ==
    IF \E k \in 1..Len(d) : d[k][1] = key
    THEN [k \in 1..Len(d) |-> IF d[k][1] = key THEN <<key, value>> ELSE d[k]]
    ELSE Append(d, <<key, value>>)

\* d[key], for a key of d (the value a caller reads from the returned dict)
DictGet(d, key) == d[CHOOSE k \in 1..Len(d) : d[k][1] = key][2]

\* list(d.values())
DictValues(d) == [k \in 1..Len(d) |-> d[k][2]]

\* lines 173-176: {user_id: split_amount for user_id, split_amount in zip(...)}
RECURSIVE ZipDict(_, _, _)
ZipDict(d, participant_ids, split_amounts) ==
    IF participant_ids = <<>> \/ split_amounts = <<>>
    THEN d
    ELSE ZipDict(DictSet(d, Head(participant_ids), Head(split_amounts)),
                 Tail(participant_ids), Tail(split_amounts))

\* mutant: only an absent or empty parameter list is reported, not a
\* mis-sized one
PolicyAmounts_NoLengthCheck(amount, split_type, num_participants, custom_amounts, percentages) ==
    IF split_type = "equal"
    THEN split_equal(amount, num_participants)
    ELSE IF split_type = "custom"
    THEN IF custom_amounts.isNone \/ custom_amounts.v = <<>>
         THEN Raise("MissingParameters", <<"Custom amounts must be provided for all participants">>)
         ELSE split_custom(amount, custom_amounts.v)
    ELSE IF split_type = "percentage"
    THEN IF percentages.isNone \/ percentages.v = <<>>
         THEN Raise("MissingParameters", <<"Percentages must be provided for all participants">>)
         ELSE split_percentage(amount, percentages.v)
    ELSE Raise("InvalidSplitType", <<split_type>>)

\* lines 156-170: the policy's list of amounts, or the error raised
PolicyAmounts(amount, split_type, num_participants, custom_amounts, percentages) ==
    IF split_type = "equal"
    THEN split_equal(amount, num_participants)
    ELSE IF split_type = "custom"
    THEN IF custom_amounts.isNone \/ custom_amounts.v = <<>>
            \/ Len(custom_amounts.v) # num_participants
         THEN Raise("MissingParameters", <<"Custom amounts must be provided for all participants">>)
         ELSE split_custom(amount, custom_amounts.v)
    ELSE IF split_type = "percentage"
    THEN IF percentages.isNone \/ percentages.v = <<>>
            \/ Len(percentages.v) # num_participants
         THEN Raise("MissingParameters", <<"Percentages must be provided for all participants">>)
         ELSE split_percentage(amount, percentages.v)
    ELSE Raise("InvalidSplitType", <<split_type>>)

create_splits(amount, split_type, participant_ids, custom_amounts, percentages) ==
    LET num_participants == Len(participant_ids)
    IN  IF num_participants = 0
        THEN Raise("InvalidInput", <<"At least one participant required">>)
        ELSE
          LET split_amounts == PolicyAmounts(amount, split_type, num_participants,
                                             custom_amounts, percentages)
          IN  IF split_amounts.ok
              THEN Ok(ZipDict(<<>>, participant_ids, split_amounts.val))
              ELSE split_amounts

----------------------------------------------------------------------------
(* Inputs of the split engine *)

Ids == 1..NumIds

\* participants of the records handed to calculate_group_balances
Users == 1..NumUsers

Amounts == (-1)..MaxAmount

\* the amounts the unit tests use: 10.00, 99.99, 100.00, 1000.01, 1234.56
TestAmounts == {1000, 9999, 10000, 100001, 123456}

EqualAmounts == ((-1)..MaxEqualAmount) \cup TestAmounts

\* the custom splits the unit tests use (valid, and summing to 95.00)
TestCustomCalls == {<<10000, <<5000, 3000, 2000>>>>, <<10000, <<5000, 3000, 1500>>>>}

\* the percentage splits the unit tests use
TestPercentageCalls == {<<10000, <<5000, 3000, 2000>>>>, <<10000, <<3333, 3333, 3334>>>>,
                        <<123456, <<2500, 2500, 2500, 2500>>>>}

\* a full group of four, a quarter each
QuarterCalls == {<<amount, <<2500, 2500, 2500, 2500>>>> : amount \in 1..MaxAmount}

\* five participants, a fifth each: the engine takes lists of any length
FifthCalls == {<<amount, <<2000, 2000, 2000, 2000, 2000>>>> : amount \in 1..MaxAmount}

Counts == (-1)..MaxN

CustomValues == (-1)..MaxCustom

\* percentages, in hundredths of a point
PctValues == {-1, 0, 1, 2000, 2500, 3333, 3334, 5000, 6666, 9998, 9999, 10000, 10001}

\* amounts and parameter values handed to the create_splits entry point
DispatchAmounts == {-1, 0, 1, 2, 3, 4}

DispatchCustom == {0, 1, 2}

DispatchPcts == {0, 3333, 5000, 10000}

----------------------------------------------------------------------------
(* Requests.  Each worker runs one handler at a time with a session of its  *)
(* own (core/database.py lines 19-31); a statement of the session reads the *)
(* rows committed at that moment.                                           *)

Workers == 1..NumWorkers

\* table users
Accounts == 1..NumAccounts

\* table groups: the one group, created by account 1
Groups == {"group"}

\* group ids a request may carry: the group, and an id no group has
GroupIds == {"group", "missing"}

IdleRequest ==
    [op |-> "idle", pc |-> "idle", inp |-> <<>>, loc |-> <<>>, pending |-> <<>>,
     status |-> 0, out |-> <<>>]

\* the handler of r returned or raised: FastAPI sends status and out
Respond(r, status, out) ==
    [r EXCEPT !.pc = "done", !.pending = <<>>, !.status = status, !.out = out]

----------------------------------------------------------------------------
(* Initial state: nothing has been called *)

Init ==
    /\ pc = "idle"
    /\ fn = "none"
    /\ args = <<>>
    /\ ret = <<>>
    /\ first = NoneVal
    /\ balances = <<>>
    /\ nExp = 0
    /\ nSet = 0
    /\ net = [u \in Users |-> 0]
    /\ seen = {}
    /\ wellFormed = TRUE
    /\ unsplit = 0
    /\ nSplits = 0
    /\ sd_balances = <<>>
    /\ debtors = <<>>
    /\ creditors = <<>>
    /\ i = 0
    /\ j = 0
    /\ current_debt = 0
    /\ current_credit = 0
    /\ transactions = <<>>
    \* create_group (groups.py lines 33-46) has committed the group with its
    \* creator as first member
    /\ db_members = {1}
    /\ db_expenses = <<>>
    /\ db_splits = <<>>
    /\ db_settlements = <<>>
    /\ lock_holder = 0
    /\ req = [w \in 1..NumWorkers |-> IdleRequest]

----------------------------------------------------------------------------
(* Calls of the split engine *)

Call_split_equal ==
    /\ pc = "idle"
    /\ \E amount \in EqualAmounts, n \in Counts :
         /\ fn' = "split_equal"
         /\ args' = [amount |-> amount, n |-> n]
         /\ ret' = split_equal(amount, n)
    /\ pc' = "returned"
    /\ UNCHANGED <<apiVars, first, aggVars, sdVars>>

Call_split_custom ==
    /\ pc = "idle"
    /\ \/ \E amount \in Amounts, n \in 0..MaxLen : \E custom_amounts \in [1..n -> CustomValues] :
            /\ args' = [amount |-> amount, custom_amounts |-> custom_amounts]
            /\ ret' = split_custom(amount, custom_amounts)
       \/ \E call \in TestCustomCalls :
            /\ args' = [amount |-> call[1], custom_amounts |-> call[2]]
            /\ ret' = split_custom(call[1], call[2])
    /\ fn' = "split_custom"
    /\ pc' = "returned"
    /\ UNCHANGED <<apiVars, first, aggVars, sdVars>>

Call_split_percentage ==
    /\ pc = "idle"
    /\ \/ \E amount \in Amounts, n \in 0..MaxLen : \E percentages \in [1..n -> PctValues] :
            /\ args' = [amount |-> amount, percentages |-> percentages]
            /\ ret' = split_percentage(amount, percentages)
       \/ \E call \in TestPercentageCalls \cup QuarterCalls \cup FifthCalls :
            /\ args' = [amount |-> call[1], percentages |-> call[2]]
            /\ ret' = split_percentage(call[1], call[2])
    /\ fn' = "split_percentage"
    /\ pc' = "returned"
    /\ UNCHANGED <<apiVars, first, aggVars, sdVars>>

\* the optional parameter lists handed to create_splits: None, or a list
OptionalLists(S) == {NoneVal} \cup {Some(l) : l \in UNION {[1..n -> S] : n \in 0..MaxLen}}

Call_create_splits ==
    /\ pc = "idle"
    /\ \E amount \in DispatchAmounts,
          split_type \in SplitTypes \cup {"other"},
          np \in 0..MaxLen :
         \E participant_ids \in [1..np -> Ids],
            custom_amounts \in
                IF split_type = "custom" THEN OptionalLists(DispatchCustom) ELSE {NoneVal},
            percentages \in
                IF split_type = "percentage" THEN OptionalLists(DispatchPcts) ELSE {NoneVal} :
           /\ fn' = "create_splits"
           /\ args' = [amount |-> amount, split_type |-> split_type,
                       participant_ids |-> participant_ids,
                       custom_amounts |-> custom_amounts, percentages |-> percentages]
           /\ ret' = create_splits(amount, split_type, participant_ids,
                                   custom_amounts, percentages)
    /\ pc' = "returned"
    /\ UNCHANGED <<apiVars, first, aggVars, sdVars>>

NextSplit ==
    \/ Call_split_equal
    \/ Call_split_custom
    \/ Call_split_percentage
    \/ Call_create_splits

SpecSplit == Init /\ [][NextSplit]_vars

----------------------------------------------------------------------------
(* debt_simplifier.py: calculate_group_balances and verify_zero_sum *)
(*                                                                         *)
(* The balances dict is a function from its keys to their values: nothing  *)
(* in calculate_group_balances or verify_zero_sum reads the insertion      *)
(* order.                                                                  *)

EmptyBalances == [u \in {} |-> 0]

\* balances.get(key, Decimal('0'))
BalGet(b, key) == IF key \in DOMAIN b THEN b[key] ELSE 0

\* balances[key] = value
BalSet(b, key, value) == [u \in (DOMAIN b) \cup {key} |-> IF u = key THEN value ELSE b[u]]

\* sum(balances.values())
RECURSIVE SumValues(_)
SumValues(b) ==
    IF DOMAIN b = {} THEN 0
    ELSE LET u == CHOOSE x \in DOMAIN b : TRUE
         IN  b[u] + SumValues([x \in (DOMAIN b) \ {u} |-> b[x]])

\* mutant: the payer's balance is overwritten, not accumulated
CreditPayer_Overwrite(b, payer_id, total_amount) ==
    BalSet(b, payer_id, total_amount)

\* line 104: the payer is credited the full amount, Decimal(str(total_amount))
CreditPayer(b, payer_id, total_amount) ==
    BalSet(b, payer_id, BalGet(b, payer_id) + total_amount)

\* mutant: a split line overwrites its participant's balance
DebitSplit_Overwrite(b, user_id, split_amount) ==
    BalSet(b, user_id, 0 - split_amount)

\* lines 108-110: a split line debits its participant,
\* Decimal(str(split['amount']))
DebitSplit(b, user_id, split_amount) ==
    BalSet(b, user_id, BalGet(b, user_id) - split_amount)

\* mutant: the payer gains the settlement amount and the receiver loses it
SettlementStep_Reversed(b, settlement) ==
    LET paid_by == settlement.paid_by
        paid_to == settlement.paid_to
        amount  == settlement.amount
        b1 == BalSet(b, paid_by, BalGet(b, paid_by) + amount)
    IN  BalSet(b1, paid_to, BalGet(b1, paid_to) - amount)

\* lines 114-121: the body of the loop over settlements
SettlementStep(b, settlement) ==
    LET paid_by == settlement.paid_by
        paid_to == settlement.paid_to
        amount  == settlement.amount            \* Decimal(str(settlement['amount']))
        b1 == BalSet(b, paid_by, BalGet(b, paid_by) - amount)
    IN  BalSet(b1, paid_to, BalGet(b1, paid_to) + amount)

\* default of verify_zero_sum's tolerance parameter, Decimal('0.01')
DefaultTolerance == 1

\* mutant: a sum exactly at the tolerance is rejected
verify_zero_sum_Strict(b, tolerance) ==
    LET total == SumValues(b)
    IN  Abs(total) < tolerance

verify_zero_sum(b, tolerance) ==
    LET total == SumValues(b)
    IN  Abs(total) <= tolerance

----------------------------------------------------------------------------
(* Records handed to calculate_group_balances.  Decimal(str(x)) of a       *)
(* two-decimal amount x is that amount, so record amounts are cents too.   *)

\* amounts of expense and settlement records, in cents
RecordAmounts == {1, 2}

\* owed amounts of split lines, in cents
SplitLineAmounts == {0, 1, 2}

SettlementRecords == [paid_by : Users, paid_to : Users, amount : RecordAmounts]

\* balances of the maps handed to verify_zero_sum, in cents; 50.00 and -30.00
\* are the unit test's unbalanced map
ZeroSumValues == {-3000, -2, -1, 0, 1, 2, 5000}

\* explicit tolerances handed to verify_zero_sum, in cents
Tolerances == {0, 1, 2}

----------------------------------------------------------------------------
(* calculate_group_balances, one loop iteration per step: the loop over    *)
(* expenses (lines 99-104), the loop over an expense's split lines (lines  *)
(* 107-110) and the loop over settlements (lines 113-121).  The history    *)
(* variables tally the records consumed, independently of the dict.        *)

Call_calculate_group_balances ==
    /\ pc = "idle"
    /\ pc' = "expenses"
    /\ fn' = "calculate_group_balances"
    /\ balances' = EmptyBalances                          \* line 96
    /\ UNCHANGED <<apiVars, first, args, ret, nExp, nSet, net, seen, wellFormed, unsplit, nSplits, sdVars>>

\* lines 99-104: the next expense record, its payer credited
BeginExpense ==
    /\ pc = "expenses"
    /\ nExp < MaxExpenses
    /\ \E payer_id \in Users, total_amount \in RecordAmounts :
         /\ balances' = CreditPayer(balances, payer_id, total_amount)
         /\ net' = [net EXCEPT ![payer_id] = @ + total_amount]
         /\ seen' = seen \cup {payer_id}
         /\ unsplit' = total_amount
    /\ wellFormed' = (wellFormed /\ unsplit = 0)
    /\ nSplits' = 0
    /\ nExp' = nExp + 1
    /\ UNCHANGED <<apiVars, first, pc, fn, args, ret, nSet, sdVars>>

\* lines 107-110: the next split line of the current expense
ProcessSplit ==
    /\ pc = "expenses"
    /\ nExp >= 1
    /\ nSplits < MaxSplits
    /\ \E user_id \in Users, split_amount \in SplitLineAmounts :
         /\ balances' = DebitSplit(balances, user_id, split_amount)
         /\ net' = [net EXCEPT ![user_id] = @ - split_amount]
         /\ seen' = seen \cup {user_id}
         /\ unsplit' = unsplit - split_amount
    /\ nSplits' = nSplits + 1
    /\ UNCHANGED <<apiVars, first, pc, fn, args, ret, nExp, nSet, wellFormed, sdVars>>

\* lines 113-121: the next settlement record
ProcessSettlement ==
    /\ pc \in {"expenses", "settlements"}
    /\ nSet < MaxSettlements
    /\ \E settlement \in SettlementRecords :
         /\ balances' = SettlementStep(balances, settlement)
         /\ net' = [u \in Users |->
                      net[u] - (IF u = settlement.paid_by THEN settlement.amount ELSE 0)
                             + (IF u = settlement.paid_to THEN settlement.amount ELSE 0)]
         /\ seen' = seen \cup {settlement.paid_by, settlement.paid_to}
    /\ wellFormed' = (wellFormed /\ unsplit = 0)
    /\ unsplit' = 0
    /\ nSet' = nSet + 1
    /\ pc' = "settlements"
    /\ UNCHANGED <<apiVars, first, fn, args, ret, nExp, nSplits, sdVars>>

\* line 123
Return_calculate_group_balances ==
    /\ pc \in {"expenses", "settlements"}
    /\ pc' = "returned"
    /\ ret' = Ok(balances)
    /\ wellFormed' = (wellFormed /\ unsplit = 0)
    /\ unsplit' = 0
    /\ UNCHANGED <<apiVars, first, fn, args, balances, nExp, nSet, net, seen, nSplits, sdVars>>

\* lines 126-139: a call of verify_zero_sum on a map of participants 1..n,
\* with the tolerance given or left to its default
Call_verify_zero_sum ==
    /\ pc = "idle"
    /\ \E n \in 0..NumUsers : \E vals \in [1..n -> ZeroSumValues] :
       \E defaulted \in BOOLEAN :
       \E tolerance \in IF defaulted THEN {DefaultTolerance} ELSE Tolerances :
         /\ args' = [balances |-> [k \in 1..n |-> <<k, vals[k]>>],
                     tolerance |-> tolerance, defaulted |-> defaulted]
         /\ sd_balances' = [k \in 1..n |-> <<k, vals[k]>>]
         /\ ret' = Ok(verify_zero_sum([k \in 1..n |-> vals[k]], tolerance))
    /\ fn' = "verify_zero_sum"
    /\ pc' = "returned"
    /\ UNCHANGED <<apiVars, first, aggVars, debtors, creditors, i, j, current_debt,
                   current_credit, transactions>>

NextBalances ==
    \/ Call_verify_zero_sum
    \/ Call_calculate_group_balances
    \/ BeginExpense
    \/ ProcessSplit
    \/ ProcessSettlement
    \/ Return_calculate_group_balances

SpecBalances == Init /\ [][NextBalances]_vars

----------------------------------------------------------------------------
(* calculate_group_balances as a function of its two lists, for comparing  *)
(* its results on different lists.                                         *)

\* lines 107-110: the loop over the split lines of one expense
RECURSIVE ApplySplits(_, _)
ApplySplits(b, splits) ==
    IF splits = <<>> THEN b
    ELSE ApplySplits(DebitSplit(b, Head(splits).user_id, Head(splits).amount), Tail(splits))

\* lines 99-110: the loop over expenses
RECURSIVE ApplyExpenses(_, _)
ApplyExpenses(b, expenses) ==
    IF expenses = <<>> THEN b
    ELSE LET expense == Head(expenses)
             b1 == CreditPayer(b, expense.paid_by, expense.amount)
         IN  ApplyExpenses(ApplySplits(b1, expense.splits), Tail(expenses))

\* lines 113-121: the loop over settlements
RECURSIVE ApplySettlements(_, _)
ApplySettlements(b, settlements) ==
    IF settlements = <<>> THEN b
    ELSE ApplySettlements(SettlementStep(b, Head(settlements)), Tail(settlements))

calculate_group_balances(expenses, settlements) ==
    ApplySettlements(ApplyExpenses(EmptyBalances, expenses), settlements)

\* longest lists of expense and of settlement records handed to
\* calculate_group_balances in one piece
MaxListed == 2

\* the two participants of those records
ListedUsers == {1, 2}

\* their expense records: the other participant owes the whole amount, or an
\* expense of 0.02 is shared 0.01 / 0.01 by the payer and the other one
ListedExpenses ==
    {[paid_by |-> p, amount |-> a, splits |-> <<[user_id |-> 3 - p, amount |-> a]>>] :
        p \in ListedUsers, a \in RecordAmounts}
    \cup {[paid_by |-> p, amount |-> 2,
           splits |-> <<[user_id |-> 1, amount |-> 1], [user_id |-> 2, amount |-> 1]>>] :
        p \in ListedUsers}

\* their settlement records: one participant pays the other
ListedSettlements ==
    {[paid_by |-> p, paid_to |-> 3 - p, amount |-> a] : p \in ListedUsers, a \in RecordAmounts}

\* lines 79-123: one call with both lists given
Call_calculate_group_balances_listed ==
    /\ pc = "idle"
    /\ \E ne \in 0..MaxListed, ns \in 0..MaxListed :
       \E expenses \in [1..ne -> ListedExpenses], settlements \in [1..ns -> ListedSettlements] :
         /\ args' = [expenses |-> expenses, settlements |-> settlements]
         /\ ret' = Ok(calculate_group_balances(expenses, settlements))
    /\ fn' = "calculate_group_balances_listed"
    /\ pc' = "returned"
    /\ UNCHANGED <<apiVars, first, aggVars, sdVars>>

NextListed == Call_calculate_group_balances_listed

SpecListed == Init /\ [][NextListed]_vars

----------------------------------------------------------------------------
(* debt_simplifier.py: simplify_debts *)

\* Decimal('0.01') of lines 36, 37, 65 and 71
Tolerance == 1

\* mutant: a balance of exactly -0.01 counts as a debt
RECURSIVE DebtorsOf_Inclusive(_)
DebtorsOf_Inclusive(b) ==
    IF b = <<>> THEN <<>>
    ELSE LET user == Head(b)[1]
             balance == Head(b)[2]
         IN  (IF balance <= -Tolerance THEN <<(<<user, Abs(balance)>>)>> ELSE <<>>)
                \o DebtorsOf_Inclusive(Tail(b))

\* mutant: the debtor's balance is kept with its sign
RECURSIVE DebtorsOf_Signed(_)
DebtorsOf_Signed(b) ==
    IF b = <<>> THEN <<>>
    ELSE LET user == Head(b)[1]
             balance == Head(b)[2]
         IN  (IF balance < -Tolerance THEN <<(<<user, balance>>)>> ELSE <<>>)
                \o DebtorsOf_Signed(Tail(b))

\* line 36: [(user, abs(balance)) for user, balance in balances.items()
\*           if balance < -Decimal('0.01')]
RECURSIVE DebtorsOf(_)
DebtorsOf(b) ==
    IF b = <<>> THEN <<>>
    ELSE LET user == Head(b)[1]
             balance == Head(b)[2]
         IN  (IF balance < -Tolerance THEN <<(<<user, Abs(balance)>>)>> ELSE <<>>)
                \o DebtorsOf(Tail(b))

\* mutant: a balance of exactly 0.01 counts as a credit
RECURSIVE CreditorsOf_Inclusive(_)
CreditorsOf_Inclusive(b) ==
    IF b = <<>> THEN <<>>
    ELSE LET user == Head(b)[1]
             balance == Head(b)[2]
         IN  (IF balance >= Tolerance THEN <<(<<user, balance>>)>> ELSE <<>>)
                \o CreditorsOf_Inclusive(Tail(b))

\* line 37: [(user, balance) for user, balance in balances.items()
\*           if balance > Decimal('0.01')]
RECURSIVE CreditorsOf(_)
CreditorsOf(b) ==
    IF b = <<>> THEN <<>>
    ELSE LET user == Head(b)[1]
             balance == Head(b)[2]
         IN  (IF balance > Tolerance THEN <<(<<user, balance>>)>> ELSE <<>>)
                \o CreditorsOf(Tail(b))

\* mutant: x goes in front of the elements whose key equals its own
RECURSIVE InsertDesc_Unstable(_, _)
InsertDesc_Unstable(sorted, x) ==
    IF sorted = <<>> THEN <<x>>
    ELSE IF Head(sorted)[2] > x[2]
         THEN <<Head(sorted)>> \o InsertDesc_Unstable(Tail(sorted), x)
         ELSE <<x>> \o sorted

\* x goes behind every element whose key is >= its own
RECURSIVE InsertDesc(_, _)
InsertDesc(sorted, x) ==
    IF sorted = <<>> THEN <<x>>
    ELSE IF Head(sorted)[2] >= x[2]
         THEN <<Head(sorted)>> \o InsertDesc(Tail(sorted), x)
         ELSE <<x>> \o sorted

\* lines 40, 42: list.sort(key=lambda x: x[1], reverse=True); the sort is
\* stable, so elements with equal keys keep their order
RECURSIVE SortDescFrom(_, _)
SortDescFrom(sorted, rest) ==
    IF rest = <<>> THEN sorted
    ELSE SortDescFrom(InsertDesc(sorted, Head(rest)), Tail(rest))

SortDesc(l) == SortDescFrom(<<>>, l)

\* balances handed to simplify_debts, in cents
BalanceValues == (-MaxBalance)..MaxBalance

\* the docstring's map {Alice: 50.00, Bob: -30.00, Charlie: -20.00}, the same
\* amounts with the debtors in the other iteration order, and a map of five
\* participants in which two disjoint subgroups owe exactly what they are owed
\* ({-0.03} with {0.03}, and {-0.02, -0.02} with {0.04})
TestBalanceMaps == {<<5000, -3000, -2000>>, <<5000, -2000, -3000>>,
                    <<-3, -2, -2, 4, 3>>}

\* the maps of n participants handed to simplify_debts
BalanceMapsOfSize(n) ==
    (IF n <= MaxMapSize THEN [1..n -> BalanceValues] ELSE {})
        \cup {m \in TestBalanceMaps : Len(m) = n}

\* lines 36-49
Call_simplify_debts ==
    /\ pc = "idle"
    \* the map's participants are 1..n in the dict's iteration order
    /\ \E n \in 0..(MaxMapSize + 1) : \E vals \in BalanceMapsOfSize(n) :
         LET b  == [k \in 1..n |-> <<k, vals[k]>>]
             ds == SortDesc(DebtorsOf(b))
             cs == SortDesc(CreditorsOf(b))
         IN  /\ sd_balances' = b
             /\ args' = [balances |-> b]
             /\ debtors' = ds
             /\ creditors' = cs
             /\ current_debt' = IF ds # <<>> THEN ds[1][2] ELSE 0
             /\ current_credit' = IF cs # <<>> THEN cs[1][2] ELSE 0
    /\ transactions' = <<>>
    /\ i' = 0
    /\ j' = 0
    /\ fn' = "simplify_debts"
    /\ pc' = "sd_loop"
    /\ UNCHANGED <<apiVars, first, ret, aggVars>>

\* mutant: a pointer moves on only when its remainder is below zero, so a
\* remainder of exactly zero keeps its participant
SimplifyLoopStep_NoAdvance ==
    /\ pc = "sd_loop"
    /\ i < Len(debtors) /\ j < Len(creditors)
    /\ LET debtor == debtors[i + 1][1]
           creditor == creditors[j + 1][1]
           settlement_amount == Min(current_debt, current_credit)
           debt_left == current_debt - settlement_amount
           credit_left == current_credit - settlement_amount
           i1 == IF debt_left < 0 THEN i + 1 ELSE i
           j1 == IF credit_left < 0 THEN j + 1 ELSE j
       IN  /\ transactions' = Append(transactions, <<debtor, creditor, settlement_amount>>)
           /\ i' = i1
           /\ j' = j1
           /\ current_debt' = IF debt_left < 0 /\ i1 < Len(debtors)
                               THEN debtors[i1 + 1][2] ELSE debt_left
           /\ current_credit' = IF credit_left < 0 /\ j1 < Len(creditors)
                                 THEN creditors[j1 + 1][2] ELSE credit_left
    /\ UNCHANGED <<apiVars, first, pc, fn, args, ret, aggVars, sd_balances, debtors, creditors>>

\* lines 51-74: one iteration of the sweep (i and j are 0-based)
SimplifyLoopStep ==
    /\ pc = "sd_loop"
    /\ i < Len(debtors) /\ j < Len(creditors)
    /\ LET debtor == debtors[i + 1][1]
           creditor == creditors[j + 1][1]
           settlement_amount == Min(current_debt, current_credit)
           debt_left == current_debt - settlement_amount
           credit_left == current_credit - settlement_amount
           i1 == IF debt_left < Tolerance THEN i + 1 ELSE i
           j1 == IF credit_left < Tolerance THEN j + 1 ELSE j
       IN  /\ transactions' = Append(transactions, <<debtor, creditor, settlement_amount>>)
           /\ i' = i1
           /\ j' = j1
           /\ current_debt' = IF debt_left < Tolerance /\ i1 < Len(debtors)
                               THEN debtors[i1 + 1][2] ELSE debt_left
           /\ current_credit' = IF credit_left < Tolerance /\ j1 < Len(creditors)
                                 THEN creditors[j1 + 1][2] ELSE credit_left
    /\ UNCHANGED <<apiVars, first, pc, fn, args, ret, aggVars, sd_balances, debtors, creditors>>

\* mutant: the dict handed in is emptied before the list is returned
Return_simplify_debts_Clearing ==
    /\ pc = "sd_loop"
    /\ ~(i < Len(debtors) /\ j < Len(creditors))
    /\ ret' = Ok(transactions)
    /\ pc' = "returned"
    /\ sd_balances' = <<>>
    /\ UNCHANGED <<apiVars, first, fn, args, aggVars, debtors, creditors, i, j,
                   current_debt, current_credit, transactions>>

\* line 76
Return_simplify_debts ==
    /\ pc = "sd_loop"
    /\ ~(i < Len(debtors) /\ j < Len(creditors))
    /\ ret' = Ok(transactions)
    /\ pc' = "returned"
    /\ UNCHANGED <<apiVars, first, fn, args, aggVars, sdVars>>

NextSimplify ==
    \/ Call_simplify_debts
    \/ SimplifyLoopStep
    \/ Return_simplify_debts

SpecSimplify == Init /\ [][NextSimplify]_vars

MaxSmallMapSize == 3
\* most participants in a balance map of the calls whose termination and
\* repetition are checked

\* the calls of simplify_debts on a map of at most MaxSmallMapSize participants
\* or on one of the named maps
Call_simplify_debts_small ==
    /\ Call_simplify_debts
    /\ \/ Len(sd_balances') <= MaxSmallMapSize
       \/ DictValues(sd_balances') \in TestBalanceMaps

NextSimplifyFair ==
    \/ Call_simplify_debts_small
    \/ SimplifyLoopStep
    \/ Return_simplify_debts

\* simplify_debts is one sequential call: once entered, the interpreter runs
\* the loop and the return statement whenever they are the next statement
SpecSimplifyFair ==
    /\ Init /\ [][NextSimplifyFair]_vars
    /\ WF_vars(SimplifyLoopStep)
    /\ WF_vars(Return_simplify_debts)

----------------------------------------------------------------------------
(* Two calls on the same dict object.  The caller keeps its reference to    *)
(* the dict while the callee runs, and hands the same object in again.      *)

\* lines 36-49, entered a second time with the dict of the first call
Call_simplify_debts_again ==
    /\ pc = "returned" /\ fn = "simplify_debts" /\ first.isNone
    /\ first' = Some(ret)
    /\ LET ds == SortDesc(DebtorsOf(sd_balances))
           cs == SortDesc(CreditorsOf(sd_balances))
       IN  /\ debtors' = ds
           /\ creditors' = cs
           /\ current_debt' = IF ds # <<>> THEN ds[1][2] ELSE 0
           /\ current_credit' = IF cs # <<>> THEN cs[1][2] ELSE 0
    /\ transactions' = <<>>
    /\ i' = 0
    /\ j' = 0
    /\ pc' = "sd_loop"
    /\ UNCHANGED <<apiVars, fn, args, ret, aggVars, sd_balances>>

\* lines 138-139, evaluated a second time on the dict of the first call
Call_verify_zero_sum_again ==
    /\ pc = "returned" /\ fn = "verify_zero_sum" /\ first.isNone
    /\ first' = Some(ret)
    /\ ret' = Ok(verify_zero_sum(DictValues(sd_balances), args.tolerance))
    /\ UNCHANGED <<apiVars, pc, fn, args, aggVars, sdVars>>

NextPure ==
    \/ Call_simplify_debts_small
    \/ SimplifyLoopStep
    \/ Return_simplify_debts
    \/ Call_simplify_debts_again
    \/ Call_verify_zero_sum
    \/ Call_verify_zero_sum_again

SpecPure == Init /\ [][NextPure]_vars

----------------------------------------------------------------------------
(* api/groups.py: add_group_member *)

\* line 75: the member limit
MaxMembers == 4

\* lines 66-71: the request arrives and the group is looked up
Begin_add_group_member(w, group_id, user_id) ==
    /\ req[w].pc \in {"idle", "done"}
    /\ LET r == [IdleRequest EXCEPT !.op = "add_group_member", !.pc = "count",
                                    !.inp = [group_id |-> group_id, user_id |-> user_id]]
       IN  req' = [req EXCEPT ![w] =
                      IF group_id \notin Groups
                      THEN Respond(r, 404, "Group not found")
                      ELSE r]
    /\ UNCHANGED <<callVars, first, aggVars, sdVars,
                   db_members, db_expenses, db_splits, db_settlements, lock_holder>>

\* lines 74-79: the members are counted and the limit is checked
Count_members(w) ==
    /\ req[w].op = "add_group_member" /\ req[w].pc = "count"
    /\ LET current_members == Cardinality(db_members)
       IN  req' = [req EXCEPT ![w] =
                      IF current_members >= MaxMembers
                      THEN Respond(@, 400, "Group already has maximum of 4 members")
                      ELSE [@ EXCEPT !.pc = "check"]]
    /\ UNCHANGED <<callVars, first, aggVars, sdVars,
                   db_members, db_expenses, db_splits, db_settlements, lock_holder>>

\* lines 82-99: the user and an existing membership are looked up
Check_member(w) ==
    /\ req[w].op = "add_group_member" /\ req[w].pc = "check"
    /\ req' = [req EXCEPT ![w] =
                  IF @.inp.user_id \notin Accounts
                  THEN Respond(@, 404, "User not found")
                  ELSE IF @.inp.user_id \in db_members
                  THEN Respond(@, 400, "User is already a member of this group")
                  ELSE [@ EXCEPT !.pc = "insert"]]
    /\ UNCHANGED <<callVars, first, aggVars, sdVars,
                   db_members, db_expenses, db_splits, db_settlements, lock_holder>>

\* lines 102-109: the row is inserted and committed.  The constraint
\* unique_group_member (models/database.py line 60) refuses a second row of
\* the same user: the IntegrityError is not caught and FastAPI answers 500.
Insert_member(w) ==
    /\ req[w].op = "add_group_member" /\ req[w].pc = "insert"
    /\ IF req[w].inp.user_id \in db_members
       THEN /\ req' = [req EXCEPT ![w] = Respond(@, 500, "IntegrityError")]
            /\ UNCHANGED db_members
       ELSE /\ db_members' = db_members \cup {req[w].inp.user_id}
            /\ req' = [req EXCEPT ![w] = Respond(@, 201, "Member added successfully")]
    /\ UNCHANGED <<callVars, first, aggVars, sdVars,
                   db_expenses, db_splits, db_settlements, lock_holder>>

\* add_group_member requests on every worker; account 0 does not exist
NextMembers ==
    \E w \in Workers :
        \/ \E group_id \in GroupIds, user_id \in 0..NumAccounts :
              Begin_add_group_member(w, group_id, user_id)
        \/ Count_members(w)
        \/ Check_member(w)
        \/ Insert_member(w)

SpecMembers == Init /\ [][NextMembers]_vars

\* C23: a group never has more than 4 members: in every reachable state,
\* including every interleaving of concurrent add_group_member requests for
\* the same group, the number of membership rows of the group is at most 4.
C23_AtMostFourMembers ==
    Cardinality(db_members) <= 4

\* two requests counted three members each and both inserted
C23_FiveMembersReached ==
    /\ Cardinality(db_members) = 5
    /\ \A w \in {1, 2} : req[w].op = "add_group_member" /\ req[w].status = 201

----------------------------------------------------------------------------
(* debt_simplifier.py as the endpoints call it: on a dict in insertion      *)
(* order, in one piece                                                      *)

\* the keys of l, each once, in the order of their first occurrence
RECURSIVE FirstOccurrences(_, _)
FirstOccurrences(l, acc) ==
    IF l = <<>> THEN acc
    ELSE FirstOccurrences(Tail(l),
            IF \E k \in 1..Len(acc) : acc[k] = Head(l) THEN acc ELSE Append(acc, Head(l)))

\* the keys calculate_group_balances assigns to, in the order of lines 104,
\* 110, 119 and 121
RECURSIVE AssignedKeys(_, _)
AssignedKeys(expenses, settlements) ==
    IF expenses # <<>>
    THEN <<Head(expenses).paid_by>>
            \o [k \in 1..Len(Head(expenses).splits) |-> Head(expenses).splits[k].user_id]
            \o AssignedKeys(Tail(expenses), settlements)
    ELSE IF settlements # <<>>
    THEN <<Head(settlements).paid_by, Head(settlements).paid_to>>
            \o AssignedKeys(expenses, Tail(settlements))
    ELSE <<>>

\* balances.items() of the dict calculate_group_balances returns
BalanceItems(expenses, settlements) ==
    LET b == calculate_group_balances(expenses, settlements)
        keys == FirstOccurrences(AssignedKeys(expenses, settlements), <<>>)
    IN  [k \in 1..Len(keys) |-> <<keys[k], b[keys[k]]>>]

\* lines 51-76: the sweep, from pointers di and dj on
RECURSIVE Sweep(_, _, _, _, _, _, _)
Sweep(ds, cs, di, dj, debt, credit, txs) ==
    IF ~(di < Len(ds) /\ dj < Len(cs)) THEN txs
    ELSE LET settlement_amount == Min(debt, credit)
             debt_left == debt - settlement_amount
             credit_left == credit - settlement_amount
             di1 == IF debt_left < Tolerance THEN di + 1 ELSE di
             dj1 == IF credit_left < Tolerance THEN dj + 1 ELSE dj
         IN  Sweep(ds, cs, di1, dj1,
                   IF debt_left < Tolerance /\ di1 < Len(ds) THEN ds[di1 + 1][2] ELSE debt_left,
                   IF credit_left < Tolerance /\ dj1 < Len(cs) THEN cs[dj1 + 1][2] ELSE credit_left,
                   Append(txs, <<ds[di + 1][1], cs[dj + 1][1], settlement_amount>>))

\* lines 36-76
simplify_debts(b) ==
    LET ds == SortDesc(DebtorsOf(b))
        cs == SortDesc(CreditorsOf(b))
    IN  Sweep(ds, cs, 0, 0,
              IF ds # <<>> THEN ds[1][2] ELSE 0,
              IF cs # <<>> THEN cs[1][2] ELSE 0,
              <<>>)

----------------------------------------------------------------------------
(* api/expenses.py and api/settlements.py *)

\* schemas.py line 103: participant_ids holds 1 to 4 ids
MaxParticipantIds == 4

MaxRequestIds == 2
\* longest participant_ids list of a create_expense request

MaxDbExpenses == 1
\* most expense rows the group gets

MaxDbSettlements == 1
\* most settlement rows the group gets

\* the accounts the ledger requests name: the creator and one more
LedgerUsers == {1, 2}

\* amounts of create_expense and create_settlement requests, in cents
\* (schemas.py lines 98 and 138: greater than zero, two decimal places)
ExpenseAmounts == {2, 3}

SettlementAmounts == {1, 2}

\* custom_amounts and percentages of a create_expense request
RequestCustom == {1, 2}

RequestPcts == {5000, 10000}

RequestLists(S) ==
    {NoneVal} \cup {Some(l) : l \in UNION {[1..n -> S] : n \in 1..MaxRequestIds}}

\* float(x) of a Numeric(12, 2) column value and Decimal(str(.)) of that
\* float (lines 273, 275 and debt_simplifier.py lines 104, 109): a double
\* holds 15 significant decimal digits and str() prints the shortest digits
\* that read back as the same double, so a value of at most 12 digits comes
\* back as the same number of cents
ViaFloat(amount) == amount

\* lines 263-278 and 314-329: the expense dicts built from the committed rows
ExpenseData(group_id) ==
    IF group_id \notin Groups THEN <<>>
    ELSE [k \in 1..Len(db_expenses) |->
            [paid_by |-> db_expenses[k].paid_by,
             amount  |-> ViaFloat(db_expenses[k].amount),
             splits  |-> LET rows == SelectSeq(db_splits,
                                        LAMBDA s : s.expense_id = db_expenses[k].id)
                         IN  [m \in 1..Len(rows) |->
                                [user_id |-> rows[m].user_id,
                                 amount |-> ViaFloat(rows[m].amount)]]]]

\* a session's rollback, or the end of its transaction: its lock is released
Unlocked(w) == IF lock_holder = w THEN 0 ELSE lock_holder

\* lines 38-46: the request arrives; the group's row is selected FOR UPDATE,
\* which waits while another transaction holds the lock
Begin_create_expense(w, inp) ==
    /\ req[w].pc \in {"idle", "done"}
    /\ Len(db_expenses) < MaxDbExpenses
    /\ LET r == [IdleRequest EXCEPT !.op = "create_expense", !.pc = "validate", !.inp = inp,
                                    !.loc = [splits_map |-> <<>>, expense_id |-> 0]]
       IN  IF inp.group_id \notin Groups
           THEN /\ req' = [req EXCEPT ![w] = Respond(r, 404, "Group not found")]
                /\ UNCHANGED lock_holder
           ELSE /\ lock_holder = 0
                /\ lock_holder' = w
                /\ req' = [req EXCEPT ![w] = r]
    /\ UNCHANGED <<callVars, first, aggVars, sdVars,
                   db_members, db_expenses, db_splits, db_settlements>>

\* lines 48-84: payer and participants are looked up in group_members and
\* create_splits runs; an HTTPException is re-raised after the rollback
\* (lines 139-141), a ValueError of the split engine becomes a 500 (lines
\* 142-147)
Validate_expense(w) ==
    /\ req[w].op = "create_expense" /\ req[w].pc = "validate"
    /\ LET inp == req[w].inp
           splits_map == create_splits(inp.amount, inp.split_type, inp.participant_ids,
                                       inp.custom_amounts, inp.percentages)
       IN  IF inp.paid_by \notin db_members
           THEN /\ req' = [req EXCEPT ![w] = Respond(@, 400, "Payer must be a member of the group")]
                /\ lock_holder' = Unlocked(w)
           ELSE IF \E k \in 1..Len(inp.participant_ids) : inp.participant_ids[k] \notin db_members
           THEN /\ req' = [req EXCEPT ![w] = Respond(@, 400, "Participant is not a member of the group")]
                /\ lock_holder' = Unlocked(w)
           ELSE IF ~splits_map.ok
           THEN /\ req' = [req EXCEPT ![w] = Respond(@, 500, "Failed to create expense")]
                /\ lock_holder' = Unlocked(w)
           ELSE /\ req' = [req EXCEPT ![w] = [@ EXCEPT !.pc = "flush",
                                                       !.loc.splits_map = splits_map.val]]
                /\ UNCHANGED lock_holder
    /\ UNCHANGED <<callVars, first, aggVars, sdVars,
                   db_members, db_expenses, db_splits, db_settlements>>

\* lines 87-105: the expense row is flushed, which gives it its id, and one
\* split row per item of splits_map is added to the session; nothing is
\* committed yet.  The lock admits one create_expense of the group at a time,
\* so the next id is free.
Flush_expense(w) ==
    /\ req[w].op = "create_expense" /\ req[w].pc = "flush"
    /\ LET inp == req[w].inp
           id == Len(db_expenses) + 1
           splits_map == req[w].loc.splits_map
           db_expense == [table |-> "expenses", id |-> id, expense_id |-> id,
                          user_id |-> inp.paid_by, amount |-> inp.amount]
       IN  req' = [req EXCEPT ![w] =
                      [@ EXCEPT !.pc = "commit",
                                !.loc.expense_id = id,
                                !.pending = <<db_expense>> \o
                                    [k \in 1..Len(splits_map) |->
                                        [table |-> "expense_splits", id |-> k, expense_id |-> id,
                                         user_id |-> splits_map[k][1],
                                         amount |-> splits_map[k][2]]]]]
    /\ UNCHANGED <<callVars, first, aggVars, sdVars,
                   db_members, db_expenses, db_splits, db_settlements, lock_holder>>

\* line 107: the pending rows are written and the transaction commits; the
\* constraints check_positive_amount and check_non_negative_split
\* (models/database.py lines 83, 103) refuse the rows, and then lines 142-147
\* roll back and answer 500
Commit_expense(w) ==
    /\ req[w].op = "create_expense" /\ req[w].pc = "commit"
    /\ LET pending == req[w].pending
           new_expenses == SelectSeq(pending, LAMBDA row : row.table = "expenses")
           new_splits == SelectSeq(pending, LAMBDA row : row.table = "expense_splits")
       IN  IF \/ \E k \in 1..Len(new_expenses) : new_expenses[k].amount <= 0
              \/ \E k \in 1..Len(new_splits) : new_splits[k].amount < 0
           THEN /\ req' = [req EXCEPT ![w] = Respond(@, 500, "Failed to create expense")]
                /\ UNCHANGED <<db_expenses, db_splits>>
           ELSE /\ db_expenses' = db_expenses \o
                      [k \in 1..Len(new_expenses) |->
                          [id |-> new_expenses[k].id, paid_by |-> new_expenses[k].user_id,
                           amount |-> new_expenses[k].amount]]
                /\ db_splits' = db_splits \o
                      [k \in 1..Len(new_splits) |->
                          [expense_id |-> new_splits[k].expense_id,
                           user_id |-> new_splits[k].user_id,
                           amount |-> new_splits[k].amount]]
                /\ req' = [req EXCEPT ![w] = [@ EXCEPT !.pc = "respond", !.pending = <<>>]]
    /\ lock_holder' = Unlocked(w)
    /\ UNCHANGED <<callVars, first, aggVars, sdVars, db_members, db_settlements>>

\* lines 108-137: the expense is refreshed, its payer and split rows are read
\* back and the response is built
Respond_expense(w) ==
    /\ req[w].op = "create_expense" /\ req[w].pc = "respond"
    /\ LET id == req[w].loc.expense_id
       IN  req' = [req EXCEPT ![w] =
                      Respond(@, 201,
                              [id |-> id,
                               splits |-> SelectSeq(db_splits, LAMBDA s : s.expense_id = id)])]
    /\ UNCHANGED <<callVars, first, aggVars, sdVars,
                   db_members, db_expenses, db_splits, db_settlements, lock_holder>>

\* a statement of the session raises inside the try block (the connection to
\* the database is lost, a statement times out): lines 142-147 roll back
\* what is not committed and answer 500
Fail_create_expense(w) ==
    /\ req[w].op = "create_expense"
    /\ req[w].pc \in {"validate", "flush", "commit", "respond"}
    /\ req' = [req EXCEPT ![w] = Respond(@, 500, "Failed to create expense")]
    /\ lock_holder' = Unlocked(w)
    /\ UNCHANGED <<callVars, first, aggVars, sdVars,
                   db_members, db_expenses, db_splits, db_settlements>>

\* settlements.py lines 26-52: the request arrives, the group and both
\* memberships are looked up
Begin_create_settlement(w, inp) ==
    /\ req[w].pc \in {"idle", "done"}
    /\ Len(db_settlements) < MaxDbSettlements
    /\ LET r == [IdleRequest EXCEPT !.op = "create_settlement", !.pc = "commit", !.inp = inp]
       IN  req' = [req EXCEPT ![w] =
                      IF inp.group_id \notin Groups
                      THEN Respond(r, 404, "Group not found")
                      ELSE IF inp.paid_by \notin db_members \/ inp.paid_to \notin db_members
                      THEN Respond(r, 400, "Both users must be members of the group")
                      ELSE r]
    /\ UNCHANGED <<callVars, first, aggVars, sdVars,
                   db_members, db_expenses, db_splits, db_settlements, lock_holder>>

\* settlements.py lines 55-81: the settlement row is added and committed
Commit_settlement(w) ==
    /\ req[w].op = "create_settlement" /\ req[w].pc = "commit"
    /\ db_settlements' = Append(db_settlements,
                                [paid_by |-> req[w].inp.paid_by,
                                 paid_to |-> req[w].inp.paid_to,
                                 amount |-> req[w].inp.amount])
    /\ req' = [req EXCEPT ![w] = Respond(@, 201, req[w].inp)]
    /\ UNCHANGED <<callVars, first, aggVars, sdVars,
                   db_members, db_expenses, db_splits, lock_holder>>

\* lines 257-305
get_group_balances(w, group_id) ==
    /\ req[w].pc \in {"idle", "done"}
    /\ LET expense_data == ExpenseData(group_id)
           settlements == <<>>                                       \* line 281
           b == calculate_group_balances(expense_data, settlements)  \* line 284
           r == [IdleRequest EXCEPT !.op = "get_group_balances",
                                    !.inp = [group_id |-> group_id]]
       IN  req' = [req EXCEPT ![w] =
                      Respond(r, 200,
                              [balances |-> [u \in (DOMAIN b) \cap Accounts |-> b[u]],
                               is_zero_sum |-> verify_zero_sum(b, DefaultTolerance)])]
    /\ UNCHANGED <<callVars, first, aggVars, sdVars,
                   db_members, db_expenses, db_splits, db_settlements, lock_holder>>

\* lines 308-354
simplify_group_debts(w, group_id) ==
    /\ req[w].pc \in {"idle", "done"}
    /\ LET expense_data == ExpenseData(group_id)
           b == BalanceItems(expense_data, <<>>)                     \* line 331
           r == [IdleRequest EXCEPT !.op = "simplify_group_debts",
                                    !.inp = [group_id |-> group_id]]
       IN  req' = [req EXCEPT ![w] =
                      Respond(r, 200, [transactions |-> simplify_debts(b)])]
    /\ UNCHANGED <<callVars, first, aggVars, sdVars,
                   db_members, db_expenses, db_splits, db_settlements, lock_holder>>

\* split_type with the list that goes with it
PolicyChoices ==
    {<<"equal", NoneVal, NoneVal>>}
        \cup {<<"custom", c, NoneVal>> : c \in RequestLists(RequestCustom)}
        \cup {<<"percentage", NoneVal, pcts>> : pcts \in RequestLists(RequestPcts)}

\* the create_expense requests the schema accepts, within the bounds
ExpenseRequests ==
    {[group_id |-> g, paid_by |-> p, amount |-> a, split_type |-> t[1],
      participant_ids |-> ids, custom_amounts |-> t[2], percentages |-> t[3]] :
        g \in GroupIds, p \in LedgerUsers, a \in ExpenseAmounts, t \in PolicyChoices,
        ids \in UNION {[1..n -> LedgerUsers] :
                        n \in 1..Min(MaxRequestIds, MaxParticipantIds)}}

\* the create_settlement requests the schema accepts (paid_by # paid_to)
SettlementRequests ==
    {r \in {[group_id |-> g, paid_by |-> p, paid_to |-> q, amount |-> a] :
                g \in GroupIds, p \in LedgerUsers, q \in LedgerUsers,
                a \in SettlementAmounts} :
        r.paid_by # r.paid_to}

\* one worker handles the requests of the group one after the other
NextLedger ==
    \E w \in {1} :
        \/ \E user_id \in LedgerUsers : Begin_add_group_member(w, "group", user_id)
        \/ Count_members(w)
        \/ Check_member(w)
        \/ Insert_member(w)
        \/ \E inp \in ExpenseRequests : Begin_create_expense(w, inp)
        \/ Validate_expense(w)
        \/ Flush_expense(w)
        \/ Commit_expense(w)
        \/ Respond_expense(w)
        \/ Fail_create_expense(w)
        \/ \E inp \in SettlementRequests : Begin_create_settlement(w, inp)
        \/ Commit_settlement(w)
        \/ \E group_id \in GroupIds : get_group_balances(w, group_id)
        \/ \E group_id \in GroupIds : simplify_group_debts(w, group_id)

SpecLedger == Init /\ [][NextLedger]_vars

----------------------------------------------------------------------------
(* Properties of the split engine *)

\* b is num/den rounded half to even: nearest integer, even on a tie
IsRoundHalfEven(b, num, den) ==
    /\ 2 * Abs(den * b - num) <= den
    /\ (2 * Abs(den * b - num) = den) => (b % 2 = 0)

NonNegative(s) == \A k \in 1..Len(s) : s[k] >= 0

\* C3: for every positive amount A and participant count n with
\* 1 <= n <= 100, split_equal(A, n) returns exactly n amounts whose sum is A.
C3_EqualSplitExact ==
    (fn = "split_equal" /\ args.amount > 0 /\ args.n >= 1 /\ args.n <= 100)
        => /\ ret.ok
           /\ Len(ret.val) = args.n
           /\ SumSeq(ret.val) = args.amount

\* 1.19 split 100 ways: base 0.01, 19 cents left to distribute
C3_Witness ==
    /\ fn = "split_equal" /\ args.amount = 119 /\ args.n = 100
    /\ ret.ok /\ Len(ret.val) = 100 /\ ret.val[1] = 2 /\ ret.val[100] = 1

\* C4: for every positive amount and every list of non-negative percentages
\* whose total is within 0.01 of 100.00, split_percentage returns one amount
\* per percentage and the amounts sum exactly to the input amount.
C4_PercentageSplitExact ==
    (/\ fn = "split_percentage"
     /\ args.amount > 0
     /\ NonNegative(args.percentages)
     /\ Abs(SumSeq(args.percentages) - 10000) <= 1)
        => /\ ret.ok
           /\ Len(ret.val) = Len(args.percentages)
           /\ SumSeq(ret.val) = args.amount

\* 0.05 at 33.33 / 33.33 / 33.33 (total 99.99): each share rounds to 0.02,
\* one cent too many, taken from the first
C4_Witness ==
    /\ fn = "split_percentage" /\ args.amount = 5
    /\ args.percentages = <<3333, 3333, 3333>>
    /\ ret.ok /\ ret.val = <<1, 2, 2>>

C9_PercentageDiffToFirstMax ==
    (fn = "split_percentage" /\ ret.ok)
        => LET n      == Len(args.percentages)
               shares == [k \in 1..n |-> PercentageShare(args.amount, args.percentages[k])]
               d      == args.amount - SumSeq(shares)
           IN  /\ Len(ret.val) = n
               /\ \A k \in 1..n : IsRoundHalfEven(shares[k], args.amount * args.percentages[k], 10000)
               /\ (d = 0) => ret.val = shares
               /\ (d # 0) =>
                     \E m \in 1..n :
                        /\ \A k \in 1..n : shares[k] <= shares[m]
                        /\ \A k \in 1..(m - 1) : shares[k] < shares[m]
                        /\ ret.val[m] = shares[m] + d
                        /\ \A k \in (1..n) \ {m} : ret.val[k] = shares[k]

\* 0.03 at 50 / 50: both shares round to 0.02; the tie goes to the first entry
C9_Witness ==
    /\ fn = "split_percentage" /\ args.amount = 3
    /\ args.percentages = <<5000, 5000>>
    /\ ret.ok /\ ret.val = <<1, 2>>

\* C10 as stated: split_custom succeeds exactly when the amounts sum to the
\* total and every amount is >= 0, returning them unchanged; it fails with
\* SplitMismatch (sum, total - sum) when the sum differs from the total, and
\* with NegativeAmount when an amount is negative.
C10_Original ==
    (fn = "split_custom")
        => LET sum == SumSeq(args.custom_amounts)
           IN  /\ ret.ok <=> (sum = args.amount /\ NonNegative(args.custom_amounts))
               /\ ret.ok => ret.val = args.custom_amounts
               /\ (sum # args.amount) =>
                      (~ret.ok /\ ret.err = "SplitMismatch"
                       /\ ret.info = <<sum, args.amount - sum>>)
               /\ (~NonNegative(args.custom_amounts)) =>
                      (~ret.ok /\ ret.err = "NegativeAmount")

\* C10 (amended): as above, but the sum is checked first: NegativeAmount is
\* raised only when the amounts do sum to the total and one of them is
\* negative; when the sum differs, SplitMismatch is raised whether or not an
\* amount is negative.
C10_CustomSplitValidation ==
    (fn = "split_custom")
        => LET sum == SumSeq(args.custom_amounts)
           IN  /\ ret.ok <=> (sum = args.amount /\ NonNegative(args.custom_amounts))
               /\ ret.ok => ret.val = args.custom_amounts
               /\ (sum # args.amount) =>
                      (~ret.ok /\ ret.err = "SplitMismatch"
                       /\ ret.info = <<sum, args.amount - sum>>)
               /\ (sum = args.amount /\ ~NonNegative(args.custom_amounts)) =>
                      (~ret.ok /\ ret.err = "NegativeAmount")
               /\ (args.amount = 10000 /\ args.custom_amounts = <<5000, 3000, 1500>>)
                      => ret.info = <<9500, 500>>

\* 0.02 with [-0.01, 0.03]: the sum matches, so the negative amount is reported
C10_Witness ==
    /\ fn = "split_custom" /\ args.amount = 2
    /\ args.custom_amounts = <<-1, 3>>
    /\ ~ret.ok /\ ret.err = "NegativeAmount"

\* the unit test's case: 100.00 with [50.00, 30.00, 15.00]
C10_TestCaseReached ==
    /\ fn = "split_custom" /\ args.amount = 10000
    /\ args.custom_amounts = <<5000, 3000, 1500>>
    /\ ~ret.ok /\ ret.err = "SplitMismatch" /\ ret.info = <<9500, 500>>

\* C11 as stated: split_percentage accepts a percentage list exactly when its
\* total lies in [99.99, 100.01] and no percentage is negative; it fails with
\* PercentageMismatch when the total is outside that interval, and with
\* NegativeAmount when any percentage is below 0; on failure no allocation is
\* returned.
C11_Original ==
    (fn = "split_percentage")
        => LET total  == SumSeq(args.percentages)
               inside == 9999 <= total /\ total <= 10001
           IN  /\ ret.ok <=> (inside /\ NonNegative(args.percentages))
               /\ (~inside) => (~ret.ok /\ ret.err = "PercentageMismatch")
               /\ (~NonNegative(args.percentages)) => (~ret.ok /\ ret.err = "NegativeAmount")
               /\ (~ret.ok) => ret.val = <<>>

\* C11 (amended): as above, but the total is checked first: NegativeAmount is
\* raised only when the total lies in [99.99, 100.01] and some percentage is
\* negative; a list whose total is outside the interval fails with
\* PercentageMismatch whether or not it holds a negative percentage.
C11_PercentageValidation ==
    (fn = "split_percentage")
        => LET total  == SumSeq(args.percentages)
               inside == 9999 <= total /\ total <= 10001
           IN  /\ ret.ok <=> (inside /\ NonNegative(args.percentages))
               /\ (~inside) => (~ret.ok /\ ret.err = "PercentageMismatch")
               /\ (inside /\ ~NonNegative(args.percentages))
                      => (~ret.ok /\ ret.err = "NegativeAmount")
               /\ (~ret.ok) => ret.val = <<>>

\* a single percentage of 100.01, on the upper boundary, is accepted
C11_Witness ==
    /\ fn = "split_percentage" /\ args.amount = 1
    /\ args.percentages = <<10001>>
    /\ ret.ok /\ ret.val = <<1>>

\* 100.00 / -0.01 / 0.01: the total is 100.00, the negative entry is reported
C11_NegativeReached ==
    /\ fn = "split_percentage"
    /\ args.percentages = <<10000, -1, 1>>
    /\ ~ret.ok /\ ret.err = "NegativeAmount"

\* C7: for every non-empty list of participant identifiers passed to
\* create_splits (no distinctness requirement) and every policy whose
\* validation succeeds, the returned mapping has exactly one entry per element
\* of the participant list, the i-th participant maps to the i-th amount
\* computed by the policy, and the mapping's values sum exactly to the total.
C7_OneEntryPerParticipant ==
    (fn = "create_splits" /\ Len(args.participant_ids) >= 1 /\ ret.ok)
        => LET n == Len(args.participant_ids)
               policy == PolicyAmounts(args.amount, args.split_type, n,
                                       args.custom_amounts, args.percentages)
           IN  /\ Len(ret.val) = n
               /\ \A k \in 1..n : DictGet(ret.val, args.participant_ids[k]) = policy.val[k]
               /\ SumSeq(DictValues(ret.val)) = args.amount

\* C12: a split request whose total amount is zero or negative fails with
\* InvalidInput under every policy (Equal, Custom and Percentage) of the
\* create_splits entry point; no allocation is returned for a non-positive
\* amount.
C12_NonPositiveAmountRejected ==
    (fn = "create_splits" /\ args.split_type \in SplitTypes /\ args.amount <= 0)
        => (~ret.ok /\ ret.err = "InvalidInput")

\* C13: split_equal fails with InvalidInput whenever amount <= 0 or the
\* participant count n <= 0, and returns no allocation in that case.
C13_EqualRejectsNonPositive ==
    (fn = "split_equal" /\ (args.amount <= 0 \/ args.n <= 0))
        => (~ret.ok /\ ret.err = "InvalidInput" /\ ret.val = <<>>)

\* an amount of zero among three participants
C13_Witness ==
    /\ fn = "split_equal" /\ args.amount = 0 /\ args.n = 3
    /\ ~ret.ok /\ ret.err = "InvalidInput"

\* a positive amount among no participants
C13_ZeroCountReached ==
    /\ fn = "split_equal" /\ args.amount = 1000 /\ args.n = 0
    /\ ~ret.ok /\ ret.err = "InvalidInput"

\* the parameter list the policy of a create_splits call reads
PolicyList(a) ==
    IF a.split_type = "custom" THEN a.custom_amounts ELSE a.percentages

\* C14: create_splits fails with InvalidInput when the participant list is
\* empty, and fails with MissingParameters when the policy is Custom or
\* Percentage and the corresponding parameter list is absent or its length
\* differs from the number of participants; both checks are made before any
\* policy validation of amounts or percentages runs, so neither depends on the
\* amount or on the values in the list.
C14_DispatchChecksFirst ==
    (fn = "create_splits")
        => /\ (Len(args.participant_ids) = 0)
                 => (~ret.ok /\ ret.err = "InvalidInput")
           /\ (/\ Len(args.participant_ids) > 0
               /\ args.split_type \in {"custom", "percentage"}
               /\ \/ PolicyList(args).isNone
                  \/ Len(PolicyList(args).v) # Len(args.participant_ids))
                 => (~ret.ok /\ ret.err = "MissingParameters")

\* two participants, one custom amount of 0.02 for a total of 0.01: the list
\* is mis-sized and its sum is wrong; the size is reported
C14_Witness ==
    /\ fn = "create_splits" /\ args.split_type = "custom" /\ args.amount = 1
    /\ Len(args.participant_ids) = 2
    /\ args.custom_amounts = Some(<<2>>)
    /\ ~ret.ok /\ ret.err = "MissingParameters"

\* no participants, a negative amount and the percentage policy without
\* percentages: the empty participant list is reported
C14_EmptyListReached ==
    /\ fn = "create_splits" /\ args.split_type = "percentage" /\ args.amount = -1
    /\ args.participant_ids = <<>> /\ args.percentages = NoneVal
    /\ ~ret.ok /\ ret.err = "InvalidInput"

----------------------------------------------------------------------------
(* Properties of the balance aggregator *)

\* C1: for every sequence of expense records whose split amounts sum to the
\* expense amount, followed by every sequence of settlement records, the
\* balance map returned by calculate_group_balances sums to exactly zero, and
\* verify_zero_sum returns true on it.
C1_BalancesZeroSum ==
    (fn = "calculate_group_balances" /\ pc = "returned" /\ wellFormed)
        => /\ SumValues(ret.val) = 0
           /\ verify_zero_sum(ret.val, DefaultTolerance)

\* two well-formed expenses and a settlement, one participant owed 0.03
C1_Witness ==
    /\ fn = "calculate_group_balances" /\ pc = "returned" /\ wellFormed
    /\ nExp = 2 /\ nSet = 1
    /\ \E u \in DOMAIN ret.val : ret.val[u] = 3

\* C2: calculate_group_balances returns a map whose keys are exactly the
\* participants that occur in at least one record, and whose value for each
\* participant is (expenses paid) - (owed split amounts) - (settlements paid)
\* + (settlements received); a payer who is also a split participant of an
\* expense nets amount - own_share for it.
C2_BalancesClosedForm ==
    (fn = "calculate_group_balances" /\ pc = "returned")
        => /\ DOMAIN ret.val = seen
           /\ \A u \in seen : ret.val[u] = net[u]

\* one expense of 0.02 paid by participant 1 and split 0.01 / 0.01 with
\* participant 2: the payer nets 0.02 - 0.01
C2_Witness ==
    /\ fn = "calculate_group_balances" /\ pc = "returned"
    /\ nExp = 1 /\ nSet = 0 /\ wellFormed /\ nSplits = 2
    /\ DOMAIN ret.val = {1, 2}
    /\ ret.val[1] = 1 /\ ret.val[2] = -1

\* a participant of no record is no key of the returned map
C2_AbsentParticipantReached ==
    /\ fn = "calculate_group_balances" /\ pc = "returned"
    /\ nExp = 2 /\ nSet = 1
    /\ DOMAIN ret.val = {1}

\* C15: verify_zero_sum(balances, tolerance) returns true exactly when the
\* absolute value of the sum of all balances is <= tolerance (default 0.01,
\* boundary inclusive); a map missing a participant's share, such as
\* {Alice: 50.00, Bob: -30.00}, yields false.
C15_VerifyZeroSum ==
    (fn = "verify_zero_sum")
        => LET values == DictValues(args.balances)
               tol    == IF args.defaulted THEN 1 ELSE args.tolerance
           IN  /\ ret.ok
               /\ ret.val = (Abs(SumSeq(values)) <= tol)
               /\ (values = <<5000, -3000>> /\ args.defaulted) => ret.val = FALSE

\* {1: 0.02, 2: -0.01} with the default tolerance: the sum is exactly 0.01
C15_Witness ==
    /\ fn = "verify_zero_sum" /\ args.defaulted
    /\ DictValues(args.balances) = <<2, -1>>
    /\ ret.val = TRUE

\* the unit test's unbalanced map
C15_TestCaseReached ==
    /\ fn = "verify_zero_sum" /\ args.defaulted
    /\ DictValues(args.balances) = <<5000, -3000>>
    /\ ret.val = FALSE

\* the permutations of 1..n
Perms(n) == {p \in [1..n -> 1..n] : \A a, b \in 1..n : a # b => p[a] # p[b]}

\* the list l in the order p
Permute(l, p) == [k \in 1..Len(l) |-> l[p[k]]]

\* C20: the balance map computed by calculate_group_balances is the same
\* mapping (same keys, same values) for every permutation of the expense
\* records and every permutation of the settlement records.
C20_OrderIndependent ==
    (fn = "calculate_group_balances_listed")
        => \A p \in Perms(Len(args.expenses)), q \in Perms(Len(args.settlements)) :
              \* equal as functions: the same keys with the same values
              calculate_group_balances(Permute(args.expenses, p),
                                       Permute(args.settlements, q)) = ret.val

\* two different expenses touching both participants and two different
\* settlements: both lists have a second order
C20_Witness ==
    /\ fn = "calculate_group_balances_listed"
    /\ Len(args.expenses) = 2 /\ args.expenses[1] # args.expenses[2]
    /\ args.expenses[1].paid_by # args.expenses[2].paid_by
    /\ Len(args.settlements) = 2 /\ args.settlements[1] # args.settlements[2]
    /\ ret.ok /\ DOMAIN ret.val = {1, 2} /\ ret.val[1] = 2 /\ ret.val[2] = -2

\* C6: a settlement reduces the mutual debt of its two participants: when a
\* participant with a negative balance is recorded as payer of a settlement to
\* a participant with a positive balance, for an amount not larger than either
\* magnitude, the balances recomputed with that settlement added are both
\* closer to zero by that amount than without it.
C6_SettlementReducesDebt ==
    [][ (pc' = "settlements" /\ nSet' = nSet + 1) =>
          \A p \in Users, r \in Users, a \in RecordAmounts :
             (/\ net'[p] = net[p] - a         \* p paid a settlement of a ...
              /\ net'[r] = net[r] + a         \* ... to r
              /\ p \in DOMAIN balances /\ r \in DOMAIN balances
              /\ balances[p] < 0
              /\ balances[r] > 0
              /\ a <= Abs(balances[p])
              /\ a <= Abs(balances[r]))
             => /\ Abs(balances'[p]) = Abs(balances[p]) - a
                /\ Abs(balances'[r]) = Abs(balances[r]) - a ]_vars

----------------------------------------------------------------------------
(* Properties of the debt simplifier *)

\* sum of the amounts of the instructions whose field f (1 = from, 2 = to)
\* names u
RECURSIVE AmountNaming(_, _, _)
AmountNaming(txs, f, u) ==
    IF txs = <<>> THEN 0
    ELSE (IF Head(txs)[f] = u THEN Head(txs)[3] ELSE 0) + AmountNaming(Tail(txs), f, u)

\* balance of u after every instruction is applied: amount added to the
\* `from` participant's balance, subtracted from the `to` participant's
AppliedBalance(b, txs, u) ==
    DictGet(b, u) + AmountNaming(txs, 1, u) - AmountNaming(txs, 2, u)

NamedIn(txs) == {txs[k][1] : k \in 1..Len(txs)} \cup {txs[k][2] : k \in 1..Len(txs)}

\* C5: for every balance map of two-decimal values that sums to zero,
\* applying all instructions returned by simplify_debts leaves every
\* participant named in an instruction with a balance within 0.01 of zero.
C5_AppliedWithinTolerance ==
    (fn = "simplify_debts" /\ pc = "returned" /\ SumSeq(DictValues(sd_balances)) = 0)
        => \A u \in NamedIn(ret.val) :
              Abs(AppliedBalance(sd_balances, ret.val, u)) <= Tolerance

\* position of participant u in the iteration order of the map b
SdPos(b, u) == CHOOSE k \in 1..Len(b) : b[k][1] = u

\* participants of b with a balance below -0.01 / above 0.01
DebtorSet(b) == {b[k][1] : k \in {m \in 1..Len(b) : b[m][2] < -1}}

CreditorSet(b) == {b[k][1] : k \in {m \in 1..Len(b) : b[m][2] > 1}}

\* C16: for every balance map, the number of instructions returned by
\* simplify_debts is at most (#debtors + #creditors - 1), where debtors are
\* the participants with balance < -0.01 and creditors those with balance
\* > 0.01, whenever both sets are non-empty.
C16_InstructionCountBound ==
    (/\ fn = "simplify_debts" /\ pc = "returned"
     /\ DebtorSet(sd_balances) # {} /\ CreditorSet(sd_balances) # {})
        => Len(ret.val) <= Cardinality(DebtorSet(sd_balances))
                           + Cardinality(CreditorSet(sd_balances)) - 1

\* {-0.04, -0.02, 0.03, 0.03}: two debtors, two creditors, three instructions
C16_Witness ==
    /\ fn = "simplify_debts" /\ pc = "returned"
    /\ DictValues(sd_balances) = <<-4, -2, 3, 3>>
    /\ Len(ret.val) = 3

\* C17: a participant whose balance has absolute value <= 0.01 (including
\* exactly 0.01 or -0.01) never appears as `from` or `to` of any instruction of
\* simplify_debts, and simplify_debts returns the empty list when no balance
\* has absolute value above 0.01.
C17_SettledExcluded ==
    (fn = "simplify_debts" /\ pc = "returned")
        => /\ \A k \in 1..Len(sd_balances) :
                Abs(sd_balances[k][2]) <= 1 => sd_balances[k][1] \notin NamedIn(ret.val)
           /\ (\A k \in 1..Len(sd_balances) : Abs(sd_balances[k][2]) <= 1)
                => ret.val = <<>>

\* {-0.01, 0.01, -0.02, 0.02}: only the last two participants are named
C17_Witness ==
    /\ fn = "simplify_debts" /\ pc = "returned"
    /\ DictValues(sd_balances) = <<-1, 1, -2, 2>>
    /\ ret.val = << <<3, 4, 2>> >>

\* {0.01, -0.01, 0.01}: nothing exceeds the tolerance, nothing is returned
C17_AllSettledReached ==
    /\ fn = "simplify_debts" /\ pc = "returned"
    /\ DictValues(sd_balances) = <<1, -1, 1>>
    /\ ret.val = <<>>

\* number of members of S swept before u: those of larger magnitude, and
\* those of equal magnitude earlier in the iteration order of b
SweepRank(b, S, u) ==
    Cardinality({v \in S :
        \/ Abs(DictGet(b, v)) > Abs(DictGet(b, u))
        \/ Abs(DictGet(b, v)) = Abs(DictGet(b, u)) /\ SdPos(b, v) < SdPos(b, u)})

\* what is left of u's debt (f = 1) or credit (f = 2) before instruction k
RemainingBefore(b, txs, k, f, u) ==
    Abs(DictGet(b, u)) - AmountNaming(SubSeq(txs, 1, k - 1), f, u)

\* C18: simplify_debts emits its instructions in sweep order: debtors are
\* visited in descending order of magnitude and creditors in descending order
\* of balance, with equal magnitudes kept in the map's iteration order; each
\* instruction pairs the currently pointed-at debtor and creditor for
\* min(remaining debt, remaining credit); so {alice: 50.00, bob: -30.00,
\* charlie: -20.00} yields exactly [(bob, alice, 30.00), (charlie, alice, 20.00)].
C18_SweepOrder ==
    (fn = "simplify_debts" /\ pc \in {"sd_loop", "returned"})
        => LET b   == sd_balances
               txs == transactions
               ds  == DebtorSet(b)
               cs  == CreditorSet(b)
               dr(k) == SweepRank(b, ds, txs[k][1])
               cr(k) == SweepRank(b, cs, txs[k][2])
               debt(k)   == RemainingBefore(b, txs, k, 1, txs[k][1])
               credit(k) == RemainingBefore(b, txs, k, 2, txs[k][2])
           IN  /\ \A k \in 1..Len(txs) :
                    /\ txs[k][1] \in ds /\ txs[k][2] \in cs
                    /\ txs[k][3] = Min(debt(k), credit(k))
               /\ Len(txs) >= 1 => (dr(1) = 0 /\ cr(1) = 0)
               /\ \A k \in 1..(Len(txs) - 1) :
                    /\ dr(k + 1) = IF txs[k][3] = debt(k) THEN dr(k) + 1 ELSE dr(k)
                    /\ cr(k + 1) = IF txs[k][3] = credit(k) THEN cr(k) + 1 ELSE cr(k)
               /\ (pc = "returned" /\ DictValues(b) = <<5000, -3000, -2000>>)
                    => ret.val = << <<2, 1, 3000>>, <<3, 1, 2000>> >>

\* {-0.02, -0.02, 0.04}: the two equal debtors are served in iteration order
C18_Witness ==
    /\ fn = "simplify_debts" /\ pc = "returned"
    /\ DictValues(sd_balances) = <<-2, -2, 4>>
    /\ ret.val = << <<1, 3, 2>>, <<2, 3, 2>> >>

\* the docstring's map with the debtors swapped: the larger debt still goes first
C18_LargerFirstReached ==
    /\ fn = "simplify_debts" /\ pc = "returned"
    /\ DictValues(sd_balances) = <<5000, -2000, -3000>>
    /\ ret.val = << <<3, 1, 3000>>, <<2, 1, 2000>> >>

\* C19: every instruction emitted by simplify_debts on a map of two-decimal
\* balances has amount > 0, its `from` participant has an input balance below
\* -0.01, its `to` participant has an input balance above 0.01, and `from`
\* differs from `to`.
C19_InstructionShape ==
    (fn = "simplify_debts" /\ pc = "returned")
        => \A k \in 1..Len(ret.val) :
              LET from   == ret.val[k][1]
                  to     == ret.val[k][2]
                  amount == ret.val[k][3]
              IN  /\ amount > 0
                  /\ DictGet(sd_balances, from) < -1
                  /\ DictGet(sd_balances, to) > 1
                  /\ from # to

\* {0.02, -0.03}: one instruction of 0.02 from the second participant to the first
C19_Witness ==
    /\ fn = "simplify_debts" /\ pc = "returned"
    /\ DictValues(sd_balances) = <<2, -3>>
    /\ ret.val = << <<2, 1, 2>> >>

----------------------------------------------------------------------------
(* Properties of simplify_debts as a settlement plan *)

\* largest magnitude of a balance of b
RECURSIVE MaxMagnitude(_)
MaxMagnitude(b) ==
    IF b = <<>> THEN 0
    ELSE LET m == MaxMagnitude(Tail(b))
         IN  IF Abs(Head(b)[2]) > m THEN Abs(Head(b)[2]) ELSE m

\* every (from, to, amount) transfer between two participants of b
Transfers(b) ==
    {t \in {b[k][1] : k \in 1..Len(b)} \X {b[k][1] : k \in 1..Len(b)}
                \X (1..MaxMagnitude(b)) : t[1] # t[2]}

\* the transfers of txs bring every balance of b to zero
Settles(b, txs) ==
    \A k \in 1..Len(b) : AppliedBalance(b, txs, b[k][1]) = 0

\* C22: for every balance map that sums to zero, simplify_debts returns a
\* minimal set of transactions: no list of (from, to, amount) transfers that
\* brings every balance to zero has fewer entries than the list it returns.
C22_MinimalTransactions ==
    (fn = "simplify_debts" /\ pc = "returned" /\ SumSeq(DictValues(sd_balances)) = 0)
        => \A n \in 0..(Len(ret.val) - 1) :
           \A txs \in [1..n -> Transfers(sd_balances)] :
              ~Settles(sd_balances, txs)

\* sum of the amounts of the instructions txs
RECURSIVE TotalAmount(_)
TotalAmount(txs) ==
    IF txs = <<>> THEN 0 ELSE Head(txs)[3] + TotalAmount(Tail(txs))

\* sum of the magnitudes of the balances of the participants in S
RECURSIVE TotalMagnitude(_, _)
TotalMagnitude(b, S) ==
    IF b = <<>> THEN 0
    ELSE (IF Head(b)[1] \in S THEN Abs(Head(b)[2]) ELSE 0) + TotalMagnitude(Tail(b), S)

\* C29: simplify_debts never over-settles: for every map of two-decimal
\* balances (zero-sum or not), the amounts of the instructions naming a given
\* debtor as `from` sum to at most that debtor's magnitude, the amounts naming
\* a given creditor as `to` sum to at most that creditor's balance, and the
\* total of all instruction amounts equals
\* min(total debtor magnitude, total creditor balance).
C29_NeverOverSettles ==
    (fn = "simplify_debts" /\ pc = "returned")
        => /\ \A u \in DebtorSet(sd_balances) :
                AmountNaming(ret.val, 1, u) <= Abs(DictGet(sd_balances, u))
           /\ \A u \in CreditorSet(sd_balances) :
                AmountNaming(ret.val, 2, u) <= DictGet(sd_balances, u)
           /\ LET owed == TotalMagnitude(sd_balances, DebtorSet(sd_balances))
                  due  == TotalMagnitude(sd_balances, CreditorSet(sd_balances))
              IN  TotalAmount(ret.val) = (IF owed <= due THEN owed ELSE due)

\* {-0.04, -0.02, 0.03}: 0.06 is owed and 0.03 is due; the first debtor pays
\* 0.03 of its 0.04 and the second debtor pays nothing
C29_Witness ==
    /\ fn = "simplify_debts" /\ pc = "returned"
    /\ DictValues(sd_balances) = <<-4, -2, 3>>
    /\ ret.val = << <<1, 3, 3>> >>

\* {-0.03, 0.04, 0.02}: 0.03 is owed and 0.06 is due; the larger creditor
\* receives 0.03 of its 0.04
C29_PartCreditReached ==
    /\ fn = "simplify_debts" /\ pc = "returned"
    /\ DictValues(sd_balances) = <<-3, 4, 2>>
    /\ ret.val = << <<1, 2, 3>> >>

\* C30: simplify_debts terminates on every finite balance map, including
\* maps that do not sum to zero: every iteration of the sweep advances the
\* debtor pointer or the creditor pointer (or both), neither pointer runs past
\* the end of its list, the sweep stops as soon as either list is exhausted,
\* and every call that entered the sweep returns.
C30_Terminates ==
    /\ [][SimplifyLoopStep =>
            /\ i' >= i /\ j' >= j /\ i' + j' > i + j
            /\ i' <= Len(debtors) /\ j' <= Len(creditors)]_vars
    /\ []((fn = "simplify_debts" /\ pc = "returned")
            => (i = Len(debtors) \/ j = Len(creditors)))
    /\ []((fn = "simplify_debts" /\ pc = "sd_loop"
                /\ (i = Len(debtors) \/ j = Len(creditors)))
            => ~ENABLED SimplifyLoopStep)
    /\ ((fn = "simplify_debts" /\ pc = "sd_loop")
            ~> (fn = "simplify_debts" /\ pc = "returned"))

\* {-0.04, -0.02, 0.03}, not zero-sum: the sweep returned after one iteration
\* with the creditors exhausted and the first debtor still pointed at
C30_Witness ==
    /\ fn = "simplify_debts" /\ pc = "returned"
    /\ DictValues(sd_balances) = <<-4, -2, 3>>
    /\ i = 0 /\ j = 1 /\ Len(debtors) = 2 /\ Len(creditors) = 1
    /\ Len(ret.val) = 1

----------------------------------------------------------------------------
(* Purity of verify_zero_sum and simplify_debts *)

C21_VerifiedTwiceReached ==
    /\ fn = "verify_zero_sum" /\ pc = "returned" /\ ~first.isNone
    /\ DictValues(sd_balances) = <<1, 1>>
    /\ args.defaulted
    /\ ret.val = FALSE /\ first.v.val = FALSE

----------------------------------------------------------------------------
(* Bounds on the rounding adjustments of the split engine *)

\* C28: for every positive two-decimal amount and every n >= 1, the number of
\* one-cent adjustments split_equal applies never exceeds n (no index past the
\* end of the list), every returned share is >= 0, and any two returned
\* shares differ by at most 0.01.
C28_EqualAdjustmentsBounded ==
    (fn = "split_equal" /\ args.amount > 0 /\ args.n >= 1)
        => /\ Abs(args.amount - args.n * RoundHalfEven(args.amount, args.n)) <= args.n
           /\ ret.ok
           /\ NonNegative(ret.val)
           \* any two shares differ by at most one cent: all shares are one of
           \* two neighbouring values
           /\ \E lo \in {ret.val[1] - 1, ret.val[1]} :
                 \A k \in 1..Len(ret.val) : ret.val[k] \in {lo, lo + 1}

\* 0.05 split 3 ways: the base share rounds up to 0.02, one cent is taken
\* back from the first participant
C28_Witness ==
    /\ fn = "split_equal" /\ args.amount = 5 /\ args.n = 3
    /\ ret.ok /\ ret.val = <<1, 2, 2>>

\* 0.50 split 100 ways: the base share rounds to 0.00 on the tie, 50 cents are
\* handed out one by one
C28_HalfOfListAdjustedReached ==
    /\ fn = "split_equal" /\ args.amount = 50 /\ args.n = 100
    /\ ret.ok /\ ret.val[50] = 1 /\ ret.val[51] = 0

\* C27: for every valid percentage split (positive two-decimal amount,
\* non-negative percentages totalling within 0.01 of 100.00, any participant
\* count n >= 1), every amount in the allocation returned by split_percentage
\* is >= 0, including the entry that absorbs the rounding difference.
C27_PercentageNonNegative ==
    (/\ fn = "split_percentage"
     /\ args.amount > 0
     /\ Len(args.percentages) >= 1
     /\ NonNegative(args.percentages)
     /\ Abs(SumSeq(args.percentages) - 10000) <= 1)
        => /\ ret.ok
           /\ NonNegative(ret.val)

\* 0.03 at 20 / 20 / 20 / 20 / 20: the first share is one cent below zero
C27_NegativeShareReached ==
    /\ fn = "split_percentage" /\ args.amount = 3
    /\ args.percentages = <<2000, 2000, 2000, 2000, 2000>>
    /\ ret.ok /\ ret.val = <<-1, 1, 1, 1, 1>>

\* with at most four percentages no share is below zero
C27_UpToFourNonNegative ==
    (/\ fn = "split_percentage"
     /\ args.amount > 0
     /\ Len(args.percentages) \in 1..4
     /\ NonNegative(args.percentages)
     /\ Abs(SumSeq(args.percentages) - 10000) <= 1)
        => /\ ret.ok
           /\ NonNegative(ret.val)

----------------------------------------------------------------------------
(* Properties of the endpoints *)

\* the committed split rows of expense id
SplitRowsOf(id) == SelectSeq(db_splits, LAMBDA s : s.expense_id = id)

\* expense id has a committed row
Committed(id) == \E k \in 1..Len(db_expenses) : db_expenses[k].id = id

RECURSIVE SumRowAmounts(_)
SumRowAmounts(rows) ==
    IF rows = <<>> THEN 0 ELSE Head(rows).amount + SumRowAmounts(Tail(rows))

\* C24: every expense committed by create_expense, for every request the
\* endpoint accepts (1 to 4 participant ids that are all group members, any
\* split policy), has split rows whose amounts sum exactly to the expense
\* amount, one split row per requested participant id.
C24_SplitRowsMatchRequest ==
    \A w \in Workers :
        (/\ req[w].op = "create_expense"
         /\ req[w].loc.expense_id # 0
         /\ Committed(req[w].loc.expense_id))
            => LET rows == SplitRowsOf(req[w].loc.expense_id)
               IN  /\ Len(rows) = Len(req[w].inp.participant_ids)
                   /\ SumRowAmounts(rows) = req[w].inp.amount

\* 0.02 split equally among [1, 1]: one row of 0.01 is committed
C24_CollapsedRowsReached ==
    /\ req[1].op = "create_expense" /\ req[1].status = 201
    /\ req[1].inp.amount = 2 /\ req[1].inp.split_type = "equal"
    /\ req[1].inp.participant_ids = <<1, 1>>
    /\ db_splits = <<[expense_id |-> 1, user_id |-> 1, amount |-> 1]>>

\* C25: after create_settlement commits a settlement for a group, every later
\* get_group_balances and simplify_group_debts call for that group computes
\* the balances from all of the group's expenses and all of its recorded
\* settlements, so the settlement changes the payer's and receiver's
\* reported balances.
C25_SettlementsCounted ==
    \A w \in Workers :
        (/\ req[w].pc = "done" /\ req[w].status = 200
         /\ req[w].op \in {"get_group_balances", "simplify_group_debts"}
         /\ req[w].inp.group_id \in Groups
         /\ db_settlements # <<>>)
            => /\ req[w].op = "get_group_balances"
                    => req[w].out.balances =
                          calculate_group_balances(ExpenseData(req[w].inp.group_id),
                                                   db_settlements)
               /\ req[w].op = "simplify_group_debts"
                    => req[w].out.transactions =
                          simplify_debts(BalanceItems(ExpenseData(req[w].inp.group_id),
                                                      db_settlements))

\* account 1 paid 0.03 owed by account 2, account 2 paid 0.02 back, and the
\* balances reported afterwards are still 0.03 and -0.03
C25_SettlementIgnoredReached ==
    /\ req[1].op = "get_group_balances" /\ req[1].pc = "done"
    /\ req[1].inp.group_id = "group"
    /\ db_settlements = <<[paid_by |-> 2, paid_to |-> 1, amount |-> 2]>>
    /\ req[1].out.balances = (1 :> 3 @@ 2 :> -3)

\* C26: create_expense is all-or-nothing: a request that fails at any step
\* (group not found, payer or a participant not a member, split validation
\* error, any later exception) leaves no expense row and no split row
\* committed, and a request that succeeds commits the expense together with
\* all of its split rows in one commit.
C26_AllOrNothing ==
    /\ [](\A w \in Workers :
            (req[w].op = "create_expense" /\ req[w].pc = "done" /\ req[w].status # 201)
                => \/ req[w].loc.expense_id = 0
                   \/ /\ ~Committed(req[w].loc.expense_id)
                      /\ SplitRowsOf(req[w].loc.expense_id) = <<>>)
    /\ [](\A w \in Workers :
            (req[w].op = "create_expense" /\ req[w].pc = "done" /\ req[w].status = 201)
                => /\ Committed(req[w].loc.expense_id)
                   /\ Len(SplitRowsOf(req[w].loc.expense_id)) = Len(req[w].loc.splits_map))
    /\ [][(db_expenses' # db_expenses \/ db_splits' # db_splits)
            => \E w \in Workers :
                  /\ req[w].op = "create_expense" /\ req[w].pc = "commit"
                  /\ Len(db_expenses') = Len(db_expenses) + 1
                  /\ Len(db_splits') = Len(db_splits) + Len(req[w].loc.splits_map)
                  /\ Committed(req[w].loc.expense_id)']_vars

\* the rows were committed, then reading them back failed and the request
\* was answered 500
C26_FailedAfterCommitReached ==
    /\ req[1].op = "create_expense" /\ req[1].pc = "done" /\ req[1].status = 500
    /\ Committed(req[1].loc.expense_id)

\* a request that fails before its commit returns leaves nothing committed
C26_RolledBackBeforeCommit ==
    [][\A w \in Workers :
          (/\ req[w].op = "create_expense"
           /\ req[w].pc \in {"validate", "flush", "commit"}
           /\ req'[w].pc = "done")
              => /\ req'[w].status # 201
                 /\ db_expenses' = db_expenses /\ db_splits' = db_splits
                 /\ (req[w].loc.expense_id # 0 => ~Committed(req[w].loc.expense_id)')]_vars

====
